---------------------------- MODULE Spec2Model ----------------------------
(***************************************************************************)
(* TicketMatchingSystem (src/ticket_matching_system.py): the semantic      *)
(* retrieval engine of the ticket resolution system.                       *)
(*                                                                         *)
(* Text is a sequence of one-character strings.  A missing value (what     *)
(* pandas.isna accepts: None, NaN) is the one-element sequence <<"NaN">>.  *)
(* Distances and similarities are integers in tenths: a cosine distance of *)
(* 0.6 is 6, a similarity threshold of 0.5 is 5.                           *)
(*                                                                         *)
(* A character that a TLA+ string cannot hold is written by its Python     *)
(* escape: "\\x0b" is the one character '\x0b'.                            *)
(***************************************************************************)
EXTENDS Integers, Sequences, FiniteSets, TLC

VARIABLES
    disk,                   \* the index files on disk, by path
    inst,                   \* "none" | "constructing" | "bound" | "crashed"
    hasattrs,               \* __init__ got past line 19: model, index, dim exist
    index,                  \* self.index
    ticket_ids,             \* self.ticket_ids
    resolved_tickets_data,  \* self.resolved_tickets_data
    pc,                     \* per thread: position inside the call in progress
    frame,                  \* per thread: the arguments of the call in progress
    ret                     \* outcome of the call or step that ran last

vars == <<disk, inst, hasattrs, index, ticket_ids,
          resolved_tickets_data, pc, frame, ret>>

---------------------------------------------------------------------------
(* Bounds *)

\* largest k a query asks for (the corpora below hold at most 3 rows)
MaxK == 4
\* longest field given to create_ticket_string in SpecNorm
MaxFieldLen == 2

---------------------------------------------------------------------------
(* Text *)

NaN == <<"NaN">>
Space == <<" ">>
\* what str.strip() removes: the characters c with c.isspace()
Whitespace ==
    {" ", "\t", "\n", "\r", "\f", "\\x0b", "\\x1c", "\\x1d", "\\x1e", "\\x1f",
     "\\x85", "\\xa0", "\\u1680", "\\u2000", "\\u2001", "\\u2002", "\\u2003",
     "\\u2004", "\\u2005", "\\u2006", "\\u2007", "\\u2008", "\\u2009",
     "\\u200a", "\\u2028", "\\u2029", "\\u202f", "\\u205f", "\\u3000"}
\* the characters of the texts tried: two letters, the space and a line break
Alphabet == {"a", "b", " ", "\n"}

\* pd.isna(x) for a scalar x
isna(x) == x = NaN

RECURSIVE lstrip(_)
lstrip(s) == IF s # <<>> /\ Head(s) \in Whitespace THEN lstrip(Tail(s)) ELSE s

RECURSIVE rstrip(_)
rstrip(s) == IF s # <<>> /\ s[Len(s)] \in Whitespace
             THEN rstrip(SubSeq(s, 1, Len(s) - 1)) ELSE s

\* str.strip()
strip(s) == rstrip(lstrip(s))

\* a mutant of create_ticket_string: the missing-value checks are dropped, so
\* a missing field is formatted as the text "nan"
create_ticket_string_no_isna(issue, category, description) ==
    LET fmt(x) == IF isna(x) THEN <<"n", "a", "n">> ELSE x
    IN  strip(fmt(issue) \o Space \o fmt(category) \o Space \o fmt(description))

\* create_ticket_string(issue, category, description)
create_ticket_string(issue, category, description) ==
    LET i == IF isna(issue) THEN <<>> ELSE issue
        c == IF isna(category) THEN <<>> ELSE category
        d == IF isna(description) THEN <<>> ELSE description
    IN  strip(i \o Space \o c \o Space \o d)

---------------------------------------------------------------------------
(* The embedding provider and the cosine metric                            *)
(*                                                                         *)
(* SentenceTransformer.encode is external.  It is modelled as a fixed      *)
(* function of the text onto four directions, the number of "a" characters *)
(* (at most 3); the cosine distance of two directions depends on how far   *)
(* apart they are; opposite directions are 1.2 apart, a similarity of -0.2.*)

RECURSIVE CountA(_)
CountA(s) == IF s = <<>> THEN 0
             ELSE (IF Head(s) = "a" THEN 1 ELSE 0) + CountA(Tail(s))

\* self.model.encode([text])[0]
encode(text) == IF CountA(text) > 3 THEN 3 ELSE CountA(text)

\* hnswlib, space='cosine': the distance of two stored directions, in tenths
cosine_distance(u, v) ==
    LET d == IF u >= v THEN u - v ELSE v - u
    IN  CASE d = 0 -> 0
          [] d = 1 -> 4
          [] d = 2 -> 6
          [] OTHER -> 12

---------------------------------------------------------------------------
(* The CSV files.  pandas.read_csv keeps the row order of the file.        *)

Row(id, issue, category, description, resolved, resolution) ==
    [Ticket_ID |-> id, Issue |-> issue, Category |-> category,
     Description |-> description, Resolved |-> resolved,
     Resolution |-> resolution]

CsvA == << Row("T1", <<"a", "a">>, NaN, <<"b">>, FALSE, NaN),
           Row("T2", <<"a">>, <<"b">>, NaN, TRUE, <<"b">>),
           Row("T3", NaN, NaN, <<"b">>, FALSE, NaN) >>

CsvB == << Row("T4", <<"a">>, <<"a">>, <<"b">>, TRUE, <<"a">>),
           Row("T1", <<"a", "a">>, NaN, <<"b">>, FALSE, NaN) >>

\* two rows that carry the same 'Ticket ID'; nothing in the class checks that
\* the identifiers of a table are unique
CsvD == << Row("T5", <<"a">>, NaN, <<"b">>, FALSE, NaN),
           Row("T5", <<"a", "a">>, NaN, <<"b">>, TRUE, <<"b">>) >>

\* a header and no rows
CsvE == << >>

CsvPaths == {"a.csv", "b.csv", "d.csv", "e.csv"}
MissingCsv == "missing.csv"
\* the default save_path of build_index_from_csv
IndexPath == "ticket_index.bin"
\* another path an index is saved to or loaded from
OtherIndexPath == "other_index.bin"
IndexPaths == {IndexPath, OtherIndexPath}

\* os.path.exists(resolved_tickets_data_path)
csv_exists(path) == path \in CsvPaths

\* pd.read_csv(csv_path)
read_csv(path) == CASE path = "a.csv" -> CsvA
                    [] path = "b.csv" -> CsvB
                    [] path = "d.csv" -> CsvD
                    [] OTHER -> CsvE

\* df['Ticket ID'].tolist()
ColumnTicketID(df) == [i \in 1..Len(df) |-> df[i].Ticket_ID]

\* lines 75-82: one ticket string per row
ticket_strings(df) ==
    [i \in 1..Len(df) |->
        create_ticket_string(df[i].Issue, df[i].Category, df[i].Description)]

\* self.model.encode(texts)
generate_embeddings(texts) == [i \in 1..Len(texts) |-> encode(texts[i])]

---------------------------------------------------------------------------
(* Exceptions, by the Python class that is raised *)

NoError == "none"
\* line 132: raise ValueError("Index has not been built yet") (also line 103)
ErrIndexNotBuilt == "ValueError: Index has not been built yet"
\* line 134: raise ValueError("Resolved tickets data has not been loaded yet")
ErrDataNotLoaded == "ValueError: Resolved tickets data has not been loaded yet"
\* an attribute __init__ never set is read (self.index, self.model, self.dim)
ErrAttribute == "AttributeError"
\* lines 31, 36, and pd.read_csv on a missing file
ErrFileNotFound == "FileNotFoundError"
\* raised by hnswlib: k larger than the element count, add_items of an empty
\* batch or beyond the capacity, load_index of a missing file, init_index of
\* an index that is initialised already
ErrHnswlib == "RuntimeError"
\* whatever SentenceTransformer.encode raises when the provider fails
ErrProvider == "ProviderError"
\* self.ticket_ids[idx] out of range, or .iloc[0] of an empty selection
ErrIndexError == "IndexError"
\* pandas: a boolean Series shorter than the table it is to select from
ErrIndexing == "IndexingError"
\* hnswlib dereferences its null algorithm pointer: the process dies
Segfault == "Segfault"

---------------------------------------------------------------------------
(* The hnswlib index.  Labels are np.arange(n), so the vectors of an index *)
(* are a sequence and slot s is element s + 1.  With at most a handful of  *)
(* elements, M = 16 and ef = 50 the graph search visits every element, so  *)
(* knn_query is exact; only the order of equal distances is open.          *)

NoneIndex == [state |-> "None", cap |-> 0, vecs |-> <<>>]
\* hnswlib.Index(space='cosine', dim=self.dim) before init_index/load_index
NewIndex == [state |-> "new", cap |-> 0, vecs |-> <<>>]
\* ... followed by init_index(max_elements=n, ...)
InitedIndex(n) == [state |-> "inited", cap |-> n, vecs |-> <<>>]
\* load_index frees the graph of an index that has one before it opens the
\* file; when the file cannot be opened the index keeps the freed graph
FreedIndex(idx) == [idx EXCEPT !.state = "freed"]

\* whether the process dies when hnswlib enters the graph of the index: it
\* does for an index that has none; for a freed graph the behaviour is
\* undefined, the process dies or the call works on what the memory held
DiesEntering(idx) ==
    CASE idx.state = "new" -> {TRUE}
      [] idx.state = "freed" -> BOOLEAN
      [] OTHER -> {FALSE}

\* whether the process dies when the graph of the index is freed, by
\* load_index or when the Index object is dropped: freeing a freed graph is
\* undefined
DiesFreeing(idx) == IF idx.state = "freed" THEN BOOLEAN ELSE {FALSE}

\* whether the process dies in set_ef, which writes into the graph when the
\* index has one: writing into a freed graph is undefined
DiesSettingEf(idx) == IF idx.state = "freed" THEN BOOLEAN ELSE {FALSE}

\* an index file: absent, or what index.save_index wrote
NoFile == [exists |-> FALSE, cap |-> 0, vecs |-> <<>>]
\* index.save_index(save_path)
save_index(idx) == [exists |-> TRUE, cap |-> idx.cap, vecs |-> idx.vecs]
\* index.load_index(load_path) of an existing file.  max_elements is left
\* at its default 0, and hnswlib takes the capacity of the file only when
\* the file holds more elements than that.
load_index(file) ==
    [state |-> "inited",
     cap |-> IF Len(file.vecs) > 0 THEN file.cap ELSE 0,
     vecs |-> file.vecs]

Min(a, b) == IF a <= b THEN a ELSE b

\* index.add_items(embeddings, np.arange(n)).  The shape of the batch is
\* checked first: an empty batch is refused whatever the index is.  Then the
\* index is entered, which ends the process when it was never initialised.
\* Label i is updated when it is present, inserted while there is room, and
\* the call raises at the first label beyond the capacity.
add_items(idx, embeddings) ==
    LET n == Len(embeddings)
        m == Min(n, idx.cap)
        old == idx.vecs
    IN  IF n = 0
        THEN [err |-> ErrHnswlib, index |-> idx]
        ELSE IF idx.state = "new"
        THEN [err |-> Segfault, index |-> idx]
        ELSE [err |-> IF n > idx.cap THEN ErrHnswlib ELSE NoError,
              index |-> [idx EXCEPT !.vecs =
                            SubSeq(embeddings, 1, m) \o
                            (IF Len(old) > m THEN SubSeq(old, m + 1, Len(old))
                             ELSE <<>>)]]

\* index.knn_query(query_embedding.reshape(1, -1), k=k): the set of
\* (labels[0], distances[0]) the library may return, as sequences of pairs
knn_query(idx, q, k) ==
    LET n == Len(idx.vecs)
        dist(s) == cosine_distance(q, idx.vecs[s + 1])
    IN  { [i \in 1..k |-> [slot |-> r[i], dist |-> dist(r[i])]] :
            r \in { f \in [1..k -> 0..(n - 1)] :
                     /\ \A i, j \in 1..k : i < j =>
                            f[i] # f[j] /\ dist(f[i]) <= dist(f[j])
                     /\ \A s \in 0..(n - 1) :
                            (\A i \in 1..k : f[i] # s) => dist(s) >= dist(f[k]) } }

---------------------------------------------------------------------------
(* find_similar_tickets, lines 143-168 *)

\* a mutant of above_threshold: the distance is compared, not the similarity
above_threshold_distance(similarity_score, similarity_threshold) ==
    10 - similarity_score >= similarity_threshold

\* line 149: similarity_score >= similarity_threshold
above_threshold(similarity_score, similarity_threshold) ==
    similarity_score >= similarity_threshold

\* lines 145-149: from position i of the pairs on, the position of the first
\* neighbour the threshold test lets through; Len(raw) + 1 when the loop ends
RECURSIVE next_kept(_, _, _)
next_kept(raw, i, threshold) ==
    IF i > Len(raw) THEN i
    ELSE IF above_threshold(10 - raw[i].dist, threshold) THEN i
    ELSE next_kept(raw, i + 1, threshold)

\* line 153: self.resolved_tickets_data['Ticket ID'] == ticket_id, a boolean
\* per row of the table
ticket_id_mask(data, ticket_id) ==
    [i \in 1..Len(data) |-> data[i].Ticket_ID = ticket_id]

\* line 153: table[mask].  pandas aligns the mask with the rows of the table
\* by position (both are numbered from 0): a mask that is too short is
\* refused, of a longer one the part beyond the table is dropped
getitem_bool(table, mask) ==
    IF Len(mask) < Len(table)
    THEN [err |-> ErrIndexing, rows |-> {}]
    ELSE [err |-> NoError, rows |-> {i \in 1..Len(table) : mask[i]}]

\* .iloc[0] of a selection that is not empty
SetMin(S) == CHOOSE x \in S : \A y \in S : x <= y

\* lines 155-163: the dictionary appended for a neighbour
result_entry(ticket_id, similarity_score, ticket_row) ==
    [ticket_id |-> ticket_id,
     similarity_score |-> similarity_score,
     issue |-> ticket_row.Issue,
     category |-> ticket_row.Category,
     description |-> ticket_row.Description,
     resolved |-> ticket_row.Resolved,
     resolution |-> ticket_row.Resolution]

\* int(x['resolved'])
int(b) == IF b THEN 1 ELSE 0

\* a mutant of sort_key: the resolved flag is left out of the key
sort_key_similarity_only(x) == <<0, 0 - x.similarity_score>>

\* line 166: key=lambda x: (-int(x['resolved']), -x['similarity_score'])
sort_key(x) == <<0 - int(x.resolved), 0 - x.similarity_score>>

\* tuple comparison a < b
tuple_lt(a, b) == a[1] < b[1] \/ (a[1] = b[1] /\ a[2] < b[2])

\* list.sort(key=...) is stable: x goes after every element not above it
RECURSIVE insert_sorted(_, _)
insert_sorted(sorted, x) ==
    IF sorted = <<>> THEN <<x>>
    ELSE IF tuple_lt(sort_key(x), sort_key(Head(sorted)))
         THEN <<x>> \o sorted
         ELSE <<Head(sorted)>> \o insert_sorted(Tail(sorted), x)

RECURSIVE sort_results(_)
sort_results(results) ==
    IF results = <<>> THEN <<>>
    ELSE insert_sorted(sort_results(SubSeq(results, 1, Len(results) - 1)),
                       results[Len(results)])

---------------------------------------------------------------------------
(* State *)

Threads == {"t1", "t2"}

NoneData == [loaded |-> FALSE, rows |-> <<>>]
DataFrame(df) == [loaded |-> TRUE, rows |-> df]

\* the locals of the call a thread is in.  Of a build: csv and save are the
\* arguments, ctor tells that __init__ made the call, dirty records whether
\* the call has so far changed self.resolved_tickets_data or self.ticket_ids.
\* Of load_index: load is the argument.  Of a query: q is query_embedding,
\* raw the pairs of labels[0] and distances[0], i the position in raw of the
\* turn of the loop in progress, results the list so far; busy records
\* whether a build or a load was in progress at a step the query has taken.
\* table is the table a line has read from self.resolved_tickets_data (153,
\* 117).  held tells that the thread has read self.index for the call of the
\* line it is in: "self" while self.index still is the Index it read, "own"
\* once another thread has assigned self.index, and then obj is the Index
\* that was read.
NoFrame == [csv |-> "", save |-> "", load |-> "", ctor |-> FALSE,
            dirty |-> FALSE, q |-> 0, k |-> 0, threshold |-> 0, raw |-> <<>>,
            i |-> 0, ticket_id |-> "", table |-> <<>>, results |-> <<>>,
            busy |-> FALSE, held |-> "none", obj |-> NoneIndex]

\* the record of a call: what ran, how it ended, and for a query its arguments,
\* the pairs knn_query gave, the list as the loop of lines 145-163 left it
\* (unsorted, one entry per neighbour kept, in the order of the pairs) and the
\* list returned
NoRet == [op |-> "", err |-> NoError, csv |-> "", via |-> "", k |-> 0,
          threshold |-> 0, raw |-> <<>>, unsorted |-> <<>>, results |-> <<>>,
          returned |-> FALSE, busy |-> FALSE, dirty |-> FALSE]

Returned(op, csv, via) ==
    [NoRet EXCEPT !.op = op, !.csv = csv, !.via = via, !.returned = TRUE]
Raised(op, err, csv, via) ==
    [NoRet EXCEPT !.op = op, !.err = err, !.csv = csv, !.via = via]
\* a step inside a call: no call has ended with it
Running == [NoRet EXCEPT !.via = "running"]

\* the file ticket_index.bin an earlier run of build_index_from_csv(csv) left
SavedIndex(csv) ==
    save_index(add_items(InitedIndex(Len(read_csv(csv))),
                   generate_embeddings(ticket_strings(read_csv(csv)))).index)

Init ==
    /\ \E file \in {NoFile} \cup {SavedIndex(csv) : csv \in {"a.csv", "b.csv"}} :
          disk = [p \in IndexPaths |-> IF p = IndexPath THEN file ELSE NoFile]
    /\ inst = "none"
    /\ hasattrs = FALSE
    /\ index = NoneIndex
    /\ ticket_ids = <<>>
    /\ resolved_tickets_data = NoneData
    /\ pc = [t \in Threads |-> "idle"]
    /\ frame = [t \in Threads |-> NoFrame]
    /\ ret = NoRet

Idle(t) == pc[t] = "idle"

\* the positions inside build_index_from_csv: by the line that runs next,
\* and with a c when the line has read self.index and its call comes next
BuildPcs == {"b75", "b88", "b92", "b93", "b93c", "b94", "b94c", "b95",
             "b95c", "b98", "b104c"}

\* thread t is inside build_index_from_csv
Building(t) == pc[t] \in BuildPcs

\* the positions inside load_index and load_resolved_tickets_data; at l117s
\* line 117 has read the table and the assignment comes next
LoadPcs == {"l110", "l110c", "l111", "l111c", "l117", "l117s"}

\* thread t is inside load_index or load_resolved_tickets_data
Loading(t) == pc[t] \in LoadPcs

\* some thread is inside a build or a load
Busy == \E u \in Threads : Building(u) \/ Loading(u)

\* the positions at which the next step reads self.index for a call of
\* hnswlib (lines 93, 94, 95, 104 reached from 98, 110, 111, 141), and the
\* position after the read
ReadPcs == {"b93", "b94", "b95", "b98", "l110", "l111", "q141"}
CallPc(p) ==
    CASE p = "b93" -> "b93c"
      [] p = "b94" -> "b94c"
      [] p = "b95" -> "b95c"
      [] p = "b98" -> "b104c"
      [] p = "l110" -> "l110c"
      [] p = "l111" -> "l111c"
      [] OTHER -> "q141c"

\* the name under which a build reports: the constructor's, or the method's
BuildOp(t) == IF frame[t].ctor THEN "__init__" ELSE "build_index_from_csv"

\* the Index thread t has read from self.index for the call it is about to
\* make.  Of two threads, the one that assigns self.index is not inside such
\* a line, so an Index that self.index no longer is belongs to one thread.
Held(t) == IF frame[t].held = "own" THEN frame[t].obj ELSE index

\* the frames after thread t, whose frame becomes f, has assigned
\* self.index: a thread that has read self.index keeps the Index it read
Rebound(t, f) ==
    [u \in Threads |->
        IF u = t THEN f
        ELSE IF frame[u].held = "self"
        THEN [frame[u] EXCEPT !.held = "own", !.obj = index]
        ELSE frame[u]]

\* whether the process dies when thread t assigns self.index: the Index
\* that was there is dropped, unless another thread has read it for a call
DiesRebinding(t) ==
    IF \E u \in Threads \ {t} : frame[u].held = "self" THEN {FALSE}
    ELSE DiesFreeing(index)

\* whether the process dies when thread t lets go of the Index it has
\* called, left as idx: the Index is dropped when self.index is another one
DiesReleasing(t, idx) ==
    IF frame[t].held = "own" THEN DiesFreeing(idx) ELSE {FALSE}

\* self.index after the call of thread t has left the Index it read as idx
Written(t, idx) == IF frame[t].held = "own" THEN index ELSE idx

\* the process dies at one of two places
Either(a, b) == {x \/ y : x \in a, y \in b}

\* the frame of a thread whose call of hnswlib has returned
Released(f) == [f EXCEPT !.held = "none", !.obj = NoneIndex]

\* an exception leaves the call of thread t.  Out of __init__ it leaves the
\* name unbound and the half-made object is garbage.
Abort(t, err, idx, ids, data) ==
    /\ pc' = [pc EXCEPT ![t] = "idle"]
    /\ frame' = [frame EXCEPT ![t] = NoFrame]
    /\ ret' = [Raised(BuildOp(t), err, frame[t].csv, "build")
                EXCEPT !.dirty = frame[t].dirty]
    /\ IF frame[t].ctor
       THEN /\ inst' = "none"
            /\ hasattrs' = FALSE
            /\ index' = NoneIndex
            /\ ticket_ids' = <<>>
            /\ resolved_tickets_data' = NoneData
       ELSE /\ index' = idx
            /\ ticket_ids' = ids
            /\ resolved_tickets_data' = data
            /\ UNCHANGED <<inst, hasattrs>>

\* hnswlib is entered with an index that has no graph: the process, with
\* every thread of it, dies.  No step follows, so what a save that dies
\* leaves of its file is not modelled.
Crash(op) ==
    /\ inst' = "crashed"
    /\ ret' = Raised(op, Segfault, "", "")
    /\ UNCHANGED <<disk, hasattrs, index, ticket_ids,
                   resolved_tickets_data, pc, frame>>

---------------------------------------------------------------------------
(* __init__, lines 17-41.  Until it returns no other thread has the        *)
(* instance, so the load path of lines 37-38 is one step.                  *)

Construct(t, data_path, index_path) ==
    /\ inst = "none"
    /\ Idle(t)
    /\ UNCHANGED disk
    /\ IF data_path = ""
       THEN \* lines 17-19: print and return; no attribute is set
            /\ inst' = "bound"
            /\ hasattrs' = FALSE
            /\ ret' = Returned("__init__", data_path, "early")
            /\ UNCHANGED <<index, ticket_ids, resolved_tickets_data, pc, frame>>
       ELSE IF ~csv_exists(data_path)
               \/ (index_path # "" /\ ~disk[index_path].exists)
       THEN \* lines 30-31, 35-36
            /\ ret' = Raised("__init__", ErrFileNotFound, data_path, "")
            /\ UNCHANGED <<inst, hasattrs, index, ticket_ids,
                           resolved_tickets_data, pc, frame>>
       ELSE IF index_path # ""
       THEN \* lines 37-38: load_index, load_resolved_tickets_data
            /\ inst' = "bound"
            /\ hasattrs' = TRUE
            /\ index' = load_index(disk[index_path])
            /\ resolved_tickets_data' = DataFrame(read_csv(data_path))
            /\ ticket_ids' = ColumnTicketID(read_csv(data_path))
            /\ ret' = Returned("__init__", data_path, "load")
            /\ UNCHANGED <<pc, frame>>
       ELSE \* line 41 and lines 71-72 of build_index_from_csv
            /\ inst' = "constructing"
            /\ hasattrs' = TRUE
            /\ index' = NoneIndex
            /\ ticket_ids' = <<>>
            /\ resolved_tickets_data' = DataFrame(read_csv(data_path))
            /\ pc' = [pc EXCEPT ![t] = "b75"]
            /\ frame' = [frame EXCEPT ![t] =
                            [NoFrame EXCEPT !.csv = data_path,
                                            !.save = IndexPath,
                                            !.ctor = TRUE, !.dirty = TRUE]]
            /\ ret' = Running

---------------------------------------------------------------------------
(* Python may switch threads between any two bytecodes.  There is one      *)
(* action per read and per assignment of an attribute of the instance that *)
(* another thread may assign, and one per call of hnswlib; what a line     *)
(* does on locals before it is part of that action.  A line of the form    *)
(* self.index.method(...) is two steps: self.index is read, and the        *)
(* method is called on the Index that was read.                            *)

\* self.index is read for the call of lines 93, 94, 95, 104 (from line 98,
\* after the test of line 102, whose outcome no step changes once the build
\* has passed line 92), 110, 111 or 141
ReadIndex(t) ==
    /\ inst \in {"constructing", "bound"}
    /\ pc[t] \in ReadPcs
    /\ pc' = [pc EXCEPT ![t] = CallPc(pc[t])]
    /\ frame' = [frame EXCEPT ![t].held = "self",
                              ![t].busy = @ \/ (pc[t] = "q141" /\ Busy)]
    /\ ret' = Running
    /\ UNCHANGED <<disk, inst, hasattrs, index, ticket_ids,
                   resolved_tickets_data>>

---------------------------------------------------------------------------
(* build_index_from_csv, lines 62-98 *)

\* the call, and lines 71-72
CallBuild(t, csv_path, save_path) ==
    /\ inst = "bound"
    /\ Idle(t)
    /\ UNCHANGED <<disk, inst, hasattrs, index, ticket_ids>>
    /\ IF ~csv_exists(csv_path)
       THEN /\ ret' = Raised("build_index_from_csv", ErrFileNotFound, csv_path, "")
            /\ UNCHANGED <<resolved_tickets_data, pc, frame>>
       ELSE /\ resolved_tickets_data' = DataFrame(read_csv(csv_path))
            /\ pc' = [pc EXCEPT ![t] = "b75"]
            /\ frame' = [frame EXCEPT ![t] =
                            [NoFrame EXCEPT
                                !.csv = csv_path, !.save = save_path,
                                !.dirty = resolved_tickets_data' # resolved_tickets_data]]
            /\ ret' = Running

\* lines 75-85
BuildTicketIds(t) ==
    /\ inst \in {"constructing", "bound"}
    /\ pc[t] = "b75"
    /\ ticket_ids' = ColumnTicketID(read_csv(frame[t].csv))
    /\ pc' = [pc EXCEPT ![t] = "b88"]
    /\ frame' = [frame EXCEPT ![t].dirty = @ \/ ticket_ids' # ticket_ids]
    /\ ret' = Running
    /\ UNCHANGED <<disk, inst, hasattrs, index, resolved_tickets_data>>

\* line 88: self.model is read and the provider is called
BuildEncode(t, provider_ok) ==
    /\ inst \in {"constructing", "bound"}
    /\ pc[t] = "b88"
    /\ UNCHANGED disk
    /\ IF ~hasattrs
       THEN Abort(t, ErrAttribute, index, ticket_ids, resolved_tickets_data)
       ELSE IF ~provider_ok
       THEN Abort(t, ErrProvider, index, ticket_ids, resolved_tickets_data)
       ELSE /\ pc' = [pc EXCEPT ![t] = "b92"]
            /\ ret' = Running
            /\ UNCHANGED <<inst, hasattrs, index, ticket_ids,
                           resolved_tickets_data, frame>>

\* lines 91-92: self.index is a new Index on which init_index has not run
BuildNewIndex(t) ==
    /\ inst \in {"constructing", "bound"}
    /\ pc[t] = "b92"
    /\ \E dies \in DiesRebinding(t) :
          IF dies
          THEN Crash(BuildOp(t))
          ELSE /\ index' = NewIndex
               /\ pc' = [pc EXCEPT ![t] = "b93"]
               /\ frame' = Rebound(t, frame[t])
               /\ ret' = Running
               /\ UNCHANGED <<disk, inst, hasattrs, ticket_ids,
                              resolved_tickets_data>>

\* line 93, the call: init_index on the Index that was read; hnswlib
\* refuses an index that has a graph, freed or not
BuildInitIndex(t) ==
    /\ inst \in {"constructing", "bound"}
    /\ pc[t] = "b93c"
    /\ LET idx == Held(t)
       IN  IF idx.state = "None"
           THEN /\ Abort(t, ErrAttribute, index, ticket_ids,
                         resolved_tickets_data)
                /\ UNCHANGED disk
           ELSE IF idx.state # "new"
           THEN \E dies \in DiesReleasing(t, idx) :
                  IF dies
                  THEN Crash(BuildOp(t))
                  ELSE /\ Abort(t, ErrHnswlib, index, ticket_ids,
                                resolved_tickets_data)
                       /\ UNCHANGED disk
           ELSE /\ index' = Written(t, InitedIndex(Len(read_csv(frame[t].csv))))
                /\ pc' = [pc EXCEPT ![t] = "b94"]
                /\ frame' = [frame EXCEPT ![t] = Released(@)]
                /\ ret' = Running
                /\ UNCHANGED <<disk, inst, hasattrs, ticket_ids,
                               resolved_tickets_data>>

\* line 94, the call: add_items on the Index that was read
BuildAddItems(t) ==
    /\ inst \in {"constructing", "bound"}
    /\ pc[t] = "b94c"
    /\ LET idx == Held(t)
           embeddings == generate_embeddings(ticket_strings(read_csv(frame[t].csv)))
           added == add_items(idx, embeddings)
       IN  IF idx.state = "None"
           THEN /\ Abort(t, ErrAttribute, index, ticket_ids,
                         resolved_tickets_data)
                /\ UNCHANGED disk
           ELSE \E dies \in Either(IF embeddings = <<>> THEN {FALSE}
                                   ELSE DiesEntering(idx),
                                   DiesReleasing(t, added.index)) :
                  IF dies
                  THEN Crash(BuildOp(t))
                  ELSE /\ UNCHANGED disk
                       /\ IF added.err # NoError
                          THEN Abort(t, added.err, Written(t, added.index),
                                     ticket_ids, resolved_tickets_data)
                          ELSE /\ index' = Written(t, added.index)
                               /\ pc' = [pc EXCEPT ![t] = "b95"]
                               /\ frame' = [frame EXCEPT ![t] = Released(@)]
                               /\ ret' = Running
                               /\ UNCHANGED <<inst, hasattrs, ticket_ids,
                                              resolved_tickets_data>>

\* line 95, the call: set_ef on the Index that was read
BuildSetEf(t) ==
    /\ inst \in {"constructing", "bound"}
    /\ pc[t] = "b95c"
    /\ LET idx == Held(t)
       IN  IF idx.state = "None"
           THEN /\ Abort(t, ErrAttribute, index, ticket_ids,
                         resolved_tickets_data)
                /\ UNCHANGED disk
           ELSE \E dies \in Either(DiesSettingEf(idx), DiesReleasing(t, idx)) :
                  IF dies
                  THEN Crash(BuildOp(t))
                  ELSE /\ pc' = [pc EXCEPT ![t] = "b98"]
                       /\ frame' = [frame EXCEPT ![t] = Released(@)]
                       /\ ret' = Running
                       /\ UNCHANGED <<disk, inst, hasattrs, index, ticket_ids,
                                      resolved_tickets_data>>

\* line 104 reached from line 98, the call: save_index(save_path) on the
\* Index that was read; line 105 and the return
BuildSave(t) ==
    /\ inst \in {"constructing", "bound"}
    /\ pc[t] = "b104c"
    /\ LET idx == Held(t)
       IN  IF idx.state = "None"
           THEN /\ Abort(t, ErrIndexNotBuilt, index, ticket_ids,
                         resolved_tickets_data)
                /\ UNCHANGED disk
           ELSE \E dies \in Either(DiesEntering(idx), DiesReleasing(t, idx)) :
                  IF dies
                  THEN Crash(BuildOp(t))
                  ELSE /\ disk' = [disk EXCEPT ![frame[t].save] = save_index(idx)]
                       /\ inst' = "bound"
                       /\ pc' = [pc EXCEPT ![t] = "idle"]
                       /\ frame' = [frame EXCEPT ![t] = NoFrame]
                       /\ ret' = Returned(BuildOp(t), frame[t].csv, "build")
                       /\ UNCHANGED <<hasattrs, index, ticket_ids,
                                      resolved_tickets_data>>

---------------------------------------------------------------------------
(* save_index, load_index, load_resolved_tickets_data called on the        *)
(* instance, cut like the build                                            *)

\* the call of save_index, the test of line 102 and the read of self.index
\* of line 104
SaveIndex(t, save_path) ==
    /\ inst = "bound"
    /\ Idle(t)
    /\ UNCHANGED <<disk, inst, hasattrs, index, ticket_ids,
                   resolved_tickets_data>>
    /\ IF ~hasattrs
       THEN /\ ret' = Raised("save_index", ErrAttribute, "", "")
            /\ UNCHANGED <<pc, frame>>
       ELSE IF index.state = "None"
       THEN /\ ret' = Raised("save_index", ErrIndexNotBuilt, "", "")
            /\ UNCHANGED <<pc, frame>>
       ELSE /\ pc' = [pc EXCEPT ![t] = "s104c"]
            /\ frame' = [frame EXCEPT ![t] =
                            [NoFrame EXCEPT !.save = save_path,
                                            !.held = "self"]]
            /\ ret' = Running

\* line 104, the call: save_index(save_path) on the Index that was read;
\* line 105
SaveIndexFile(t) ==
    /\ inst = "bound"
    /\ pc[t] = "s104c"
    /\ LET idx == Held(t)
       IN  \E dies \in Either(DiesEntering(idx), DiesReleasing(t, idx)) :
             IF dies
             THEN Crash("save_index")
             ELSE /\ disk' = [disk EXCEPT ![frame[t].save] = save_index(idx)]
                  /\ pc' = [pc EXCEPT ![t] = "idle"]
                  /\ frame' = [frame EXCEPT ![t] = NoFrame]
                  /\ ret' = Returned("save_index", "", "")
                  /\ UNCHANGED <<inst, hasattrs, index, ticket_ids,
                                 resolved_tickets_data>>

\* the call of load_index, and line 109: self.index is a new Index
LoadIndex(t, load_path) ==
    /\ inst = "bound"
    /\ Idle(t)
    /\ IF ~hasattrs
       THEN \* self.dim
            /\ ret' = Raised("load_index", ErrAttribute, "", "")
            /\ UNCHANGED <<disk, inst, hasattrs, index, ticket_ids,
                           resolved_tickets_data, pc, frame>>
       ELSE \E dies \in DiesRebinding(t) :
              IF dies
              THEN Crash("load_index")
              ELSE /\ index' = NewIndex
                   /\ pc' = [pc EXCEPT ![t] = "l110"]
                   /\ frame' = Rebound(t, [NoFrame EXCEPT !.load = load_path])
                   /\ ret' = Running
                   /\ UNCHANGED <<disk, inst, hasattrs, ticket_ids,
                                  resolved_tickets_data>>

\* line 110, the call: load_index(load_path) on the Index that was read.
\* hnswlib frees the graph the index has, then opens the file.
LoadIndexFile(t) ==
    /\ inst = "bound"
    /\ pc[t] = "l110c"
    /\ LET idx == Held(t)
           file == disk[frame[t].load]
           after == IF file.exists THEN load_index(file)
                    ELSE IF idx.state = "new" THEN idx
                    ELSE FreedIndex(idx)
       IN  \E dies \in Either(DiesFreeing(idx), DiesReleasing(t, after)) :
             IF dies
             THEN Crash("load_index")
             ELSE /\ index' = Written(t, after)
                  /\ UNCHANGED <<disk, inst, hasattrs, ticket_ids,
                                 resolved_tickets_data>>
                  /\ IF ~file.exists
                     THEN /\ pc' = [pc EXCEPT ![t] = "idle"]
                          /\ frame' = [frame EXCEPT ![t] = NoFrame]
                          /\ ret' = Raised("load_index", ErrHnswlib, "", "")
                     ELSE /\ pc' = [pc EXCEPT ![t] = "l111"]
                          /\ frame' = [frame EXCEPT ![t] = Released(@)]
                          /\ ret' = Running

\* line 111, the call: set_ef on the Index that was read; line 112
LoadSetEf(t) ==
    /\ inst = "bound"
    /\ pc[t] = "l111c"
    /\ LET idx == Held(t)
       IN  \E dies \in Either(DiesSettingEf(idx), DiesReleasing(t, idx)) :
             IF dies
             THEN Crash("load_index")
             ELSE /\ pc' = [pc EXCEPT ![t] = "idle"]
                  /\ frame' = [frame EXCEPT ![t] = NoFrame]
                  /\ ret' = Returned("load_index", "", "")
                  /\ UNCHANGED <<disk, inst, hasattrs, index, ticket_ids,
                                 resolved_tickets_data>>

\* the call of load_resolved_tickets_data, and line 116
LoadResolvedTicketsData(t, csv_path) ==
    /\ inst = "bound"
    /\ Idle(t)
    /\ UNCHANGED <<disk, inst, hasattrs, index, ticket_ids>>
    /\ IF ~csv_exists(csv_path)
       THEN /\ ret' = Raised("load_resolved_tickets_data", ErrFileNotFound,
                             csv_path, "")
            /\ UNCHANGED <<resolved_tickets_data, pc, frame>>
       ELSE /\ resolved_tickets_data' = DataFrame(read_csv(csv_path))
            /\ pc' = [pc EXCEPT ![t] = "l117"]
            /\ frame' = [frame EXCEPT ![t] = [NoFrame EXCEPT !.csv = csv_path]]
            /\ ret' = Running

\* line 117, the read: whatever self.resolved_tickets_data is now
LoadReadTable(t) ==
    /\ inst = "bound"
    /\ pc[t] = "l117"
    /\ pc' = [pc EXCEPT ![t] = "l117s"]
    /\ frame' = [frame EXCEPT ![t].table = resolved_tickets_data.rows]
    /\ ret' = Running
    /\ UNCHANGED <<disk, inst, hasattrs, index, ticket_ids,
                   resolved_tickets_data>>

\* line 117, the assignment: the identifiers of the table that was read;
\* line 118
LoadTicketIds(t) ==
    /\ inst = "bound"
    /\ pc[t] = "l117s"
    /\ ticket_ids' = ColumnTicketID(frame[t].table)
    /\ pc' = [pc EXCEPT ![t] = "idle"]
    /\ frame' = [frame EXCEPT ![t] = NoFrame]
    /\ ret' = Returned("load_resolved_tickets_data", frame[t].csv, "")
    /\ UNCHANGED <<disk, inst, hasattrs, index, resolved_tickets_data>>

---------------------------------------------------------------------------
(* find_similar_tickets, lines 120-168: the checks of 131-134, the read of *)
(* self.index and the call of knn_query of 141, and in each turn of the    *)
(* loop that passes the threshold test, self.ticket_ids of 150 and the two  *)
(* reads of self.resolved_tickets_data of 153, first the table that is     *)
(* selected from, then the table the mask is made of.                      *)

\* the queries tried: six tickets, at directions 0 to 3
QueryIssues == {NaN, <<"a">>, <<"a", "a">>}
QueryCategories == {NaN, <<"a">>}
QueryDescriptions == {<<"b">>}
\* the similarity thresholds tried, in tenths: -0.5, 0, 0.3, 0.5 (the
\* default) and 0.7
Thresholds == {-5, 0, 3, 5, 7}

Query(k, threshold) ==
    [NoRet EXCEPT !.op = "find_similar_tickets", !.k = k,
                  !.threshold = threshold]

\* the record of the query thread t is in, as far as it has come
QueryOf(t) ==
    [Query(frame[t].k, frame[t].threshold) EXCEPT
        !.raw = frame[t].raw, !.busy = frame[t].busy \/ Busy]

\* the query of thread t ends, by an exception or by the return of line 168
EndQuery(t, outcome) ==
    /\ pc' = [pc EXCEPT ![t] = "idle"]
    /\ frame' = [frame EXCEPT ![t] = NoFrame]
    /\ ret' = outcome

\* the call, and lines 131-138
FindSimilarTickets(t, issue, category, description, k, threshold, provider_ok) ==
    /\ inst = "bound"
    /\ Idle(t)
    /\ UNCHANGED <<disk, inst, hasattrs, index, ticket_ids,
                   resolved_tickets_data>>
    /\ LET call == [Query(k, threshold) EXCEPT !.busy = Busy]
       IN  IF ~hasattrs
           THEN EndQuery(t, [call EXCEPT !.err = ErrAttribute])
           ELSE IF index.state = "None"
           THEN EndQuery(t, [call EXCEPT !.err = ErrIndexNotBuilt])
           ELSE IF ~resolved_tickets_data.loaded
           THEN EndQuery(t, [call EXCEPT !.err = ErrDataNotLoaded])
           ELSE IF ~provider_ok
           THEN EndQuery(t, [call EXCEPT !.err = ErrProvider])
           ELSE /\ pc' = [pc EXCEPT ![t] = "q141"]
                /\ frame' = [frame EXCEPT ![t] =
                      [NoFrame EXCEPT
                          !.q = encode(create_ticket_string(issue, category,
                                                            description)),
                          !.k = k, !.threshold = threshold, !.busy = Busy]]
                /\ ret' = Running

\* line 141, the call: knn_query on the Index that was read, and the turns
\* of the loop up to the first neighbour that passes the threshold test;
\* when none does, lines 166-168
QueryKnn(t) ==
    /\ inst = "bound"
    /\ pc[t] = "q141c"
    /\ LET idx == Held(t)
       IN
       \E dies \in Either(DiesEntering(idx), DiesReleasing(t, idx)) :
       IF dies
       THEN Crash("find_similar_tickets")
       ELSE
       /\ UNCHANGED <<disk, inst, hasattrs, index, ticket_ids,
                      resolved_tickets_data>>
       /\ IF idx.state = "None"
          THEN EndQuery(t, [QueryOf(t) EXCEPT !.err = ErrAttribute])
          ELSE IF frame[t].k > Len(idx.vecs)
          THEN EndQuery(t, [QueryOf(t) EXCEPT !.err = ErrHnswlib])
          ELSE \E raw \in knn_query(idx, frame[t].q, frame[t].k) :
                 LET i == next_kept(raw, 1, frame[t].threshold)
                 IN  IF i > Len(raw)
                     THEN EndQuery(t, [QueryOf(t) EXCEPT !.raw = raw,
                                                         !.returned = TRUE])
                     ELSE /\ pc' = [pc EXCEPT ![t] = "q150"]
                          /\ frame' = [frame EXCEPT ![t] =
                                [Released(@) EXCEPT !.raw = raw, !.i = i,
                                                    !.busy = @ \/ Busy]]
                          /\ ret' = Running

\* line 150: ticket_id = self.ticket_ids[idx]
QueryTicketId(t) ==
    /\ inst = "bound"
    /\ pc[t] = "q150"
    /\ UNCHANGED <<disk, inst, hasattrs, index, ticket_ids,
                   resolved_tickets_data>>
    /\ LET idx == frame[t].raw[frame[t].i].slot
       IN  IF idx + 1 > Len(ticket_ids)
           THEN EndQuery(t, [QueryOf(t) EXCEPT !.err = ErrIndexError])
           ELSE /\ pc' = [pc EXCEPT ![t] = "q153"]
                /\ frame' = [frame EXCEPT ![t].ticket_id = ticket_ids[idx + 1],
                                          ![t].busy = @ \/ Busy]
                /\ ret' = Running

\* line 153, the first read of self.resolved_tickets_data: the table that is
\* selected from
QueryTable(t) ==
    /\ inst = "bound"
    /\ pc[t] = "q153"
    /\ pc' = [pc EXCEPT ![t] = "q153mask"]
    /\ frame' = [frame EXCEPT ![t].table = resolved_tickets_data.rows,
                              ![t].busy = @ \/ Busy]
    /\ ret' = Running
    /\ UNCHANGED <<disk, inst, hasattrs, index, ticket_ids,
                   resolved_tickets_data>>

\* line 153, the second read of self.resolved_tickets_data: the mask, the
\* selection and its first row; lines 155-163, and the turns of the loop up
\* to the next neighbour that passes the threshold test; when none does,
\* lines 166-168
QueryTicketRow(t) ==
    /\ inst = "bound"
    /\ pc[t] = "q153mask"
    /\ UNCHANGED <<disk, inst, hasattrs, index, ticket_ids,
                   resolved_tickets_data>>
    /\ LET f == frame[t]
           mask == ticket_id_mask(resolved_tickets_data.rows, f.ticket_id)
           selected == getitem_bool(f.table, mask)
       IN  IF selected.err # NoError
           THEN EndQuery(t, [QueryOf(t) EXCEPT !.err = selected.err])
           ELSE IF selected.rows = {}
           THEN EndQuery(t, [QueryOf(t) EXCEPT !.err = ErrIndexError])
           ELSE LET results == Append(f.results,
                                   result_entry(f.ticket_id,
                                                10 - f.raw[f.i].dist,
                                                f.table[SetMin(selected.rows)]))
                    i == next_kept(f.raw, f.i + 1, f.threshold)
                IN  IF i > Len(f.raw)
                    THEN EndQuery(t, [QueryOf(t) EXCEPT
                                         !.returned = TRUE,
                                         !.unsorted = results,
                                         !.results = sort_results(results)])
                    ELSE /\ pc' = [pc EXCEPT ![t] = "q150"]
                         /\ frame' = [frame EXCEPT ![t].results = results,
                                                   ![t].i = i,
                                                   ![t].ticket_id = "",
                                                   ![t].table = <<>>,
                                                   ![t].busy = @ \/ Busy]
                         /\ ret' = Running

---------------------------------------------------------------------------
(* One caller: every call runs to its end before the next one starts.      *)

MainThread == "t1"

Next ==
    \/ \E data_path \in CsvPaths \cup {MissingCsv, ""},
          index_path \in IndexPaths \cup {""} :
          Construct(MainThread, data_path, index_path)
    \/ ReadIndex(MainThread)
    \/ \E csv_path \in CsvPaths \cup {MissingCsv}, save_path \in IndexPaths :
          CallBuild(MainThread, csv_path, save_path)
    \/ BuildTicketIds(MainThread)
    \/ \E provider_ok \in BOOLEAN : BuildEncode(MainThread, provider_ok)
    \/ BuildNewIndex(MainThread)
    \/ BuildInitIndex(MainThread)
    \/ BuildAddItems(MainThread)
    \/ BuildSetEf(MainThread)
    \/ BuildSave(MainThread)
    \/ \E save_path \in IndexPaths : SaveIndex(MainThread, save_path)
    \/ SaveIndexFile(MainThread)
    \/ \E load_path \in IndexPaths : LoadIndex(MainThread, load_path)
    \/ LoadIndexFile(MainThread)
    \/ LoadSetEf(MainThread)
    \/ \E csv_path \in CsvPaths \cup {MissingCsv} :
          LoadResolvedTicketsData(MainThread, csv_path)
    \/ LoadReadTable(MainThread)
    \/ LoadTicketIds(MainThread)
    \/ \E issue \in QueryIssues, category \in QueryCategories,
          description \in QueryDescriptions, k \in 1..MaxK,
          threshold \in Thresholds, provider_ok \in BOOLEAN :
          FindSimilarTickets(MainThread, issue, category, description, k,
                             threshold, provider_ok)
    \/ QueryKnn(MainThread)
    \/ QueryTicketId(MainThread)
    \/ QueryTable(MainThread)
    \/ QueryTicketRow(MainThread)

Spec == Init /\ [][Next]_vars

---------------------------------------------------------------------------
(* Two callers share the instance: after one thread has constructed it,    *)
(* each thread of Threads builds, loads, saves or queries, with the        *)
(* default k and threshold, and the steps of their calls interleave.  A    *)
(* call into hnswlib is one step.                                          *)

DefaultK == 3
DefaultThreshold == 5

\* the corpora the concurrent builds are given: two with rows, one without
BuildCsvPaths == {"b.csv", "e.csv"}
\* the corpus the concurrent loads are given
LoadCsvPaths == {"b.csv"}
\* the queries that arrive meanwhile
ConcurrentIssues == {NaN, <<"a", "a">>}

NextConcurrent ==
    \/ \E index_path \in {"", IndexPath} :
          Construct(MainThread, "a.csv", index_path)
    \/ \E t \in Threads : ReadIndex(t)
    \/ \E t \in Threads, csv_path \in BuildCsvPaths :
          CallBuild(t, csv_path, IndexPath)
    \/ \E t \in Threads : BuildTicketIds(t)
    \/ \E t \in Threads, provider_ok \in BOOLEAN : BuildEncode(t, provider_ok)
    \/ \E t \in Threads : BuildNewIndex(t)
    \/ \E t \in Threads : BuildInitIndex(t)
    \/ \E t \in Threads : BuildAddItems(t)
    \/ \E t \in Threads : BuildSetEf(t)
    \/ \E t \in Threads : BuildSave(t)
    \/ \E t \in Threads : SaveIndex(t, IndexPath)
    \/ \E t \in Threads : SaveIndexFile(t)
    \/ \E t \in Threads, load_path \in IndexPaths : LoadIndex(t, load_path)
    \/ \E t \in Threads : LoadIndexFile(t)
    \/ \E t \in Threads : LoadSetEf(t)
    \/ \E t \in Threads, csv_path \in LoadCsvPaths :
          LoadResolvedTicketsData(t, csv_path)
    \/ \E t \in Threads : LoadReadTable(t)
    \/ \E t \in Threads : LoadTicketIds(t)
    \/ \E t \in Threads, issue \in ConcurrentIssues :
          FindSimilarTickets(t, issue, NaN, <<"b">>, DefaultK,
                             DefaultThreshold, TRUE)
    \/ \E t \in Threads : QueryKnn(t)
    \/ \E t \in Threads : QueryTicketId(t)
    \/ \E t \in Threads : QueryTable(t)
    \/ \E t \in Threads : QueryTicketRow(t)

SpecConcurrent == Init /\ [][NextConcurrent]_vars

---------------------------------------------------------------------------
(* create_ticket_string on its own: every combination of missing and       *)
(* present fields up to MaxFieldLen characters                             *)

RECURSIVE Texts(_)
Texts(n) == IF n = 0 THEN {<<>>}
            ELSE Texts(n - 1) \cup
                 {Append(s, c) : s \in {x \in Texts(n - 1) : Len(x) = n - 1},
                                 c \in Alphabet}

Fields == {NaN} \cup Texts(MaxFieldLen)

InitNorm ==
    /\ disk = [p \in IndexPaths |-> NoFile]
    /\ inst = "none"
    /\ hasattrs = FALSE
    /\ index = NoneIndex
    /\ ticket_ids = <<>>
    /\ resolved_tickets_data = NoneData
    /\ pc = [t \in Threads |-> "idle"]
    /\ frame = [t \in Threads |-> NoFrame]
    /\ \E issue \in Fields, category \in Fields, description \in Fields :
          ret = [op |-> "call", issue |-> issue, category |-> category,
                 description |-> description, out |-> <<>>]

CallCreateTicketString ==
    /\ ret.op = "call"
    /\ ret' = [ret EXCEPT !.op = "create_ticket_string",
                          !.out = create_ticket_string(ret.issue, ret.category,
                                                       ret.description)]
    /\ UNCHANGED <<disk, inst, hasattrs, index, ticket_ids,
                   resolved_tickets_data, pc, frame>>

NextNorm == CallCreateTicketString

SpecNorm == InitNorm /\ [][NextNorm]_vars

---------------------------------------------------------------------------
(* Properties *)

\* find_similar_tickets returned a list
QueryReturned == ret.op = "find_similar_tickets" /\ ret.returned

\* find_similar_tickets has ended, by a return or by an exception
QueryEnded == ret.op = "find_similar_tickets" /\ ret.via # "running"

\* the ValueErrors the class raises itself
ValueErrors == {ErrIndexNotBuilt, ErrDataNotLoaded}

\* C1: every match of a returned list has a similarity score, 10 minus the
\* distance of one of the neighbours knn_query gave, that is at least the
\* similarity threshold of the call; neighbours below it are left out, even
\* when the list becomes empty.
C1_ThresholdFilter ==
    QueryReturned =>
        \A i \in 1..Len(ret.results) :
            /\ ret.results[i].similarity_score >= ret.threshold
            /\ \E j \in 1..Len(ret.raw) :
                  ret.results[i].similarity_score = 10 - ret.raw[j].dist

\* C1 witness: every neighbour was below the threshold and the list is empty
C1_Witness ==
    /\ QueryReturned
    /\ ret.raw # <<>>
    /\ \A j \in 1..Len(ret.raw) : 10 - ret.raw[j].dist < ret.threshold
    /\ ret.results = <<>>

\* C2: in a returned list, of any two matches the earlier one is resolved and
\* the later one not, or both have the same resolved status and the earlier
\* one has at least the similarity score of the later one.
C2_ResolvedFirstOrder ==
    QueryReturned =>
        \A i, j \in 1..Len(ret.results) : i < j =>
            \/ ret.results[i].resolved /\ ~ret.results[j].resolved
            \/ /\ ret.results[i].resolved = ret.results[j].resolved
               /\ ret.results[i].similarity_score >= ret.results[j].similarity_score

\* C2 witness: a resolved match precedes an unresolved one of higher similarity
C2_Witness ==
    /\ QueryReturned
    /\ \E i, j \in 1..Len(ret.results) :
          /\ i < j
          /\ ret.results[i].resolved /\ ~ret.results[j].resolved
          /\ ret.results[i].similarity_score < ret.results[j].similarity_score

\* the instance has not completed a build or a load
Uninitialized ==
    inst = "bound" /\ (~hasattrs \/ index.state = "None"
                       \/ ~resolved_tickets_data.loaded)

\* C3: find_similar_tickets on an instance that has not completed a build or
\* a load, the one whose constructor returned early included, raises the
\* defined not-initialized ValueError and returns no list.
C3_NotInitialized ==
    (QueryEnded /\ Uninitialized) =>
        ret.err \in ValueErrors /\ ~ret.returned

\* C4: a build from a table with zero rows that the provider does not fail
\* ends with the defined argument error (a ValueError).
C4_EmptyCorpusInvalidArgument ==
    (ret.via = "build" /\ read_csv(ret.csv) = <<>>
        /\ ret.err \notin {ErrProvider, ErrAttribute}) =>
        ret.err \in ValueErrors

\* C5: when the constructor has loaded a persisted index and attached a
\* corpus, the index holds as many elements as ticket identifiers are attached.
C5_LoadAgreesOnSize ==
    (ret.op = "__init__" /\ ret.via = "load") =>
        Len(index.vecs) = Len(ticket_ids)

\* the constructor completed a build or a load
Ready == inst = "bound" /\ hasattrs

\* C6: once the instance is Ready, no step changes its index, its identifier
\* list or its corpus table, and it stays Ready.
C6_ReadyIsFrozen ==
    [][Ready => /\ Ready'
                /\ index' = index
                /\ ticket_ids' = ticket_ids
                /\ resolved_tickets_data' = resolved_tickets_data]_vars

\* missing becomes the empty text
TextOf(x) == IF isna(x) THEN <<>> ELSE x

\* a field that is missing, or a text that is not empty and holds no whitespace
CleanField(x) == isna(x) \/ (x # <<>> /\ \A i \in 1..Len(x) : x[i] \notin Whitespace)

RECURSIVE JoinWithSpaces(_)
JoinWithSpaces(texts) ==
    IF texts = <<>> THEN <<>>
    ELSE IF Len(texts) = 1 THEN texts[1]
    ELSE texts[1] \o Space \o JoinWithSpaces(Tail(texts))

PresentOf(issue, category, description) ==
    (IF isna(issue) THEN <<>> ELSE <<issue>>) \o
    (IF isna(category) THEN <<>> ELSE <<category>>) \o
    (IF isna(description) THEN <<>> ELSE <<description>>)

\* C7 as claimed: for fields that are missing or plain words, the result is
\* exactly the present fields, in the order issue, category, description,
\* joined by single spaces; a missing field adds no text and no separator.
C7_PresentFieldsSingleSpaces ==
    (ret.op = "create_ticket_string" /\ CleanField(ret.issue)
        /\ CleanField(ret.category) /\ CleanField(ret.description)) =>
        ret.out = JoinWithSpaces(PresentOf(ret.issue, ret.category,
                                           ret.description))

\* C7 amended: the result is the text issue, space, category, space,
\* description, each missing field taken as the empty text, cut down by
\* whitespace at both ends only: it neither starts nor ends with whitespace,
\* and what was cut before and after it is whitespace.  The separator of a
\* missing field stays unless it is cut at an end.
C7_MissingAsEmptyThenTrimmed ==
    ret.op = "create_ticket_string" =>
        LET full == TextOf(ret.issue) \o Space \o TextOf(ret.category)
                    \o Space \o TextOf(ret.description)
            out == ret.out
        IN  /\ out = <<>> \/ (out[1] \notin Whitespace
                              /\ out[Len(out)] \notin Whitespace)
            /\ \E a \in 0..Len(full) :
                  /\ a + Len(out) <= Len(full)
                  /\ \A i \in 1..Len(out) : full[a + i] = out[i]
                  /\ \A i \in 1..a : full[i] \in Whitespace
                  /\ \A i \in (a + Len(out) + 1)..Len(full) :
                        full[i] \in Whitespace

\* C7 witness: the category is missing between two words, and both of its
\* separators are in the result
C7_Witness ==
    /\ ret.op = "create_ticket_string"
    /\ isna(ret.category) /\ ~isna(ret.issue) /\ ~isna(ret.description)
    /\ CleanField(ret.issue) /\ CleanField(ret.description)
    /\ ret.out = ret.issue \o <<" ", " ">> \o ret.description

\* C8: a query on an index of N elements gives at most min(k, N) pairs, in
\* non-decreasing distance order; with k above N the call returns min(k, N)
\* results or raises the defined argument error (a ValueError), nothing else.
C8_QueryWithinBounds ==
    (QueryEnded /\ inst = "bound" /\ hasattrs
        /\ index.state = "inited" /\ resolved_tickets_data.loaded
        /\ ret.err # ErrProvider) =>
        LET N == Len(index.vecs)
        IN  /\ Len(ret.raw) <= Min(ret.k, N)
            /\ \A i, j \in 1..Len(ret.raw) :
                  i < j => ret.raw[i].dist <= ret.raw[j].dist
            /\ ret.k > N =>
                  \/ ret.returned /\ Len(ret.raw) = N
                  \/ ret.err \in ValueErrors

\* C9: a build the embedding provider fails has changed neither the corpus
\* table nor the identifier list of the instance it was called on.
C9_ProviderFailureLeavesNoPartialBuild ==
    (ret.via = "build" /\ ret.err = ErrProvider /\ inst = "bound") => ~ret.dirty

\* C10: a build or a load started while another is in progress is rejected,
\* so at most one build or load is in progress at any time, and no query
\* returns a list that it made while a build or a load was in progress.
C10_BuildsAreExclusive ==
    /\ Cardinality({t \in Threads : Building(t) \/ Loading(t)}) <= 1
    /\ QueryReturned => ~ret.busy


\* the neighbours of the last query that passed the threshold, in the order
\* knn_query gave them
KeptNeighbours ==
    LET Kept(p) == 10 - p.dist >= ret.threshold
    IN  SelectSeq(ret.raw, Kept)

\* match m carries the identifier and the fields of corpus row r
CarriesRow(m, r) ==
    /\ m.ticket_id = r.Ticket_ID
    /\ m.issue = r.Issue
    /\ m.category = r.Category
    /\ m.description = r.Description
    /\ m.resolved = r.Resolved
    /\ m.resolution = r.Resolution

\* the index holds the embeddings of the attached corpus, row by row, and the
\* identifier list is the corpus's 'Ticket ID' column
IndexMatchesCorpus ==
    /\ index.vecs = generate_embeddings(ticket_strings(resolved_tickets_data.rows))
    /\ ticket_ids = ColumnTicketID(resolved_tickets_data.rows)

\* C11: every match of a returned list carries the ticket identifier and the
\* issue, category, description, resolved and resolution fields of the corpus
\* row at the position of the slot id knn_query gave for that neighbour: the
\* join through 'Ticket ID' selects that row, whatever corpus is attached
\* (stated here for an index that was built from the attached corpus).
C11_JoinSelectsSlotRow ==
    (QueryReturned /\ IndexMatchesCorpus) =>
        /\ Len(ret.unsorted) = Len(KeptNeighbours)
        /\ \A i \in 1..Len(KeptNeighbours) :
              /\ KeptNeighbours[i].slot + 1 <= Len(resolved_tickets_data.rows)
              /\ CarriesRow(ret.unsorted[i],
                     resolved_tickets_data.rows[KeptNeighbours[i].slot + 1])

===========================================================================
